---- MODULE Spec2Model ----
(***************************************************************************)
(* State-machine model of the RAG bot's session services                   *)
(* (src/app/api/routes.py, src/app/services/document_processor.py,         *)
(* src/app/services/retrieval.py).                                         *)
(*                                                                         *)
(* Objects live in heaps: `processors` holds the DocumentProcessor         *)
(* objects, `retrievers` the RetrievalService objects and `faiss` the      *)
(* FAISS stores each RetrievalService has built.  A reference is the       *)
(* object's position in its heap; 0 is Python's None.                      *)
(*                                                                         *)
(* The async handlers run on one event loop, so a handler is atomic        *)
(* between its awaits; the only await in the handlers is file.read() in    *)
(* process_uploaded_files.  get_user_services is a plain `def` dependency, *)
(* which FastAPI runs on a thread pool: SpecRace interleaves its           *)
(* statements, Spec runs it to completion before the handler.              *)
(***************************************************************************)
EXTENDS Integers, Sequences, FiniteSets, TLC

\* ---------------------------------------------------------------- bounds

\* Cap on the ids assigned in one run of Spec (one session).
MaxId == 3
\* Cap on the ids assigned in one run of SpecSessions, over both sessions.
MaxShared == 2
\* Calls of get_user_services each pool thread makes (SpecRace).
MaxCalls == 2
\* Passages the QA chain returns for one query (SpecQuery).
MaxRetrieved == 3

\* ------------------------------------------------------------- constants

\* retrieval.py:156, the length a preview is cut to.
PreviewLen == 200

\* ---------------------------------------------------------------- inputs

Sessions == {"s1", "s2"}
Threads == {"t1", "t2"}

\* The files a client may send: two readable PDFs, a PDF the extractor
\* cannot read, and a file that is not a PDF.
Files ==
  { [filename |-> "a.pdf", is_pdf |-> TRUE,  readable |-> TRUE,  text |-> "ta"],
    [filename |-> "b.pdf", is_pdf |-> TRUE,  readable |-> TRUE,  text |-> "tb"],
    [filename |-> "x.pdf", is_pdf |-> TRUE,  readable |-> FALSE, text |-> ""],
    [filename |-> "n.txt", is_pdf |-> FALSE, readable |-> FALSE, text |-> ""] }

\* The two readable PDFs.
Files_a == CHOOSE f \in Files : f.filename = "a.pdf"
Files_b == CHOOSE f \in Files : f.filename = "b.pdf"

RECURSIVE SeqsUpTo(_, _)
SeqsUpTo(S, n) ==
  IF n = 0 THEN {<<>>}
  ELSE LET shorter == SeqsUpTo(S, n - 1)
       IN shorter \cup {Append(q, x) : q \in {r \in shorter : Len(r) = n - 1}, x \in S}

\* The file lists of the upload requests of a run that assigns at most `cap`
\* ids: up to cap - 1 files, so that the longest leaves room for another
\* upload.  process_uploaded_files reads no file after the first one it
\* rejects, so a rejected file is the last of its list.
AllBatches ==
  {q \in SeqsUpTo(Files, MaxId - 1) :
     \A i \in 1..(Len(q) - 1) : q[i].is_pdf /\ q[i].readable}

Batches(cap) == {q \in AllBatches : Len(q) <= cap - 1}

\* Where add_documents / rebuild may raise: nowhere, in create_vector_store
\* (the embedder), in merge_from, or in create_qa_chain.
Faults == {"none", "build", "merge", "chain"}

\* The question texts a client may send: an empty one and one with words.
Messages == {"", "what is in a.pdf?"}

StoreIds == {1, 2}

\* A text of n characters.
Letters == <<"a", "b", "c", "d", "e", "f", "g">>
Text(n) == [i \in 1..n |-> Letters[(i % 7) + 1]]

\* The passages a QA chain may return as source_documents: of two documents,
\* with a text shorter than, as long as, and longer than a preview.
RetrievedDocs ==
  {[page_content |-> Text(n), source |-> name, chunk_id |-> 0, total_chunks |-> 1] :
     n \in {3, PreviewLen, PreviewLen + 1}, name \in {"a.pdf", "b.pdf"}}

VARIABLES
  document_processors,  \* routes.py:8   session_id -> DocumentProcessor reference
  retrieval_services,   \* routes.py:9   session_id -> RetrievalService reference
  processors,           \* heap of DocumentProcessor objects
  retrievers,           \* heap of RetrievalService objects
  faiss,                \* per RetrievalService, the FAISS stores it references
  upload,               \* the upload request suspended at `await file.read()`
  response,             \* status code of the last response sent (0: none yet)
  calls,                \* pool threads inside get_user_services (SpecRace)
  emptied,              \* history: sessions whose last remaining document was
                        \* deleted, with no successful upload since
  source_documents,     \* query: result["source_documents"] of the chain call
  query_loop            \* query: position and locals of its loop (SpecQuery)

vars == <<document_processors, retrieval_services, processors, retrievers,
          faiss, upload, response, calls, emptied, source_documents,
          query_loop>>

\* The state of the session services, and the state of one query call.
services == <<document_processors, retrieval_services, processors, retrievers,
              faiss, upload, response, calls, emptied>>
in_query == <<source_documents, query_loop>>

\* ------------------------------------------------- document_processor.py

\* DocumentProcessor.__init__
NewDocumentProcessor == [uploaded_documents |-> <<>>, document_id_counter |-> 0]

\* extract_text_from_pdf: the text of a readable PDF; raises 400 otherwise.
extract_text_from_pdf(file) ==
  IF file.readable THEN [status |-> 200, text |-> file.text]
  ELSE [status |-> 400, text |-> ""]

\* doc_info with the id taken from the number of records held.
doc_info_by_length(dp, file, text) ==
  [id |-> Len(dp.uploaded_documents) + 1, filename |-> file.filename, text |-> text]

\* Lines 45-56 of process_uploaded_files: the record of one extracted file.
doc_info(dp, file, text) ==
  [id |-> dp.document_id_counter + 1, filename |-> file.filename, text |-> text]

Register(dp, file, text) ==
  [uploaded_documents |-> Append(dp.uploaded_documents, doc_info(dp, file, text)),
   document_id_counter |-> dp.document_id_counter + 1]

\* clear_documents that also restarts the id counter.
clear_and_restart(dp) == [uploaded_documents |-> <<>>, document_id_counter |-> 0]

clear_documents(dp) == [dp EXCEPT !.uploaded_documents = <<>>]

get_document_by_id(dp, document_id) ==
  {dp.uploaded_documents[i] : i \in {j \in DOMAIN dp.uploaded_documents :
                                      dp.uploaded_documents[j].id = document_id}}

\* delete_document that pops the first record without comparing ids.
delete_document_unchecked(dp, document_id) ==
  IF dp.uploaded_documents = <<>> THEN [dp |-> dp, deleted |-> FALSE]
  ELSE [dp |-> [dp EXCEPT !.uploaded_documents = Tail(@)], deleted |-> TRUE]

\* delete_document: pops the first record with the id.
delete_document(dp, document_id) ==
  LET docs == dp.uploaded_documents
      hits == {j \in DOMAIN docs : docs[j].id = document_id}
  IN IF hits = {} THEN [dp |-> dp, deleted |-> FALSE]
     ELSE LET i == CHOOSE j \in hits : \A k \in hits : j <= k
          IN [dp |-> [dp EXCEPT !.uploaded_documents =
                        SubSeq(docs, 1, i - 1) \o SubSeq(docs, i + 1, Len(docs))],
              deleted |-> TRUE]

get_remaining_texts_and_names(dp) ==
  [texts |-> [i \in DOMAIN dp.uploaded_documents |-> dp.uploaded_documents[i].text],
   names |-> [i \in DOMAIN dp.uploaded_documents |-> dp.uploaded_documents[i].filename]]

get_document_stats(dp) ==
  [total_documents |-> Len(dp.uploaded_documents), documents |-> dp.uploaded_documents]

\* ---------------------------------------------------------- retrieval.py

\* RetrievalService.__init__
NewRetrievalService == [vector_store |-> 0, qa_chain |-> 0, document_count |-> 0]

NoStores == [v \in StoreIds |-> <<>>]

\* CharacterTextSplitter.split_text on the texts of Files.
split_text(text) ==
  CASE text = "ta" -> <<"ta/0">>
    [] text = "tb" -> <<"tb/0", "tb/1">>
    [] OTHER -> <<>>

\* Lines 42-53 of create_vector_store: the passages of texts[i + 1]; i is the
\* value enumerate() gives, which is also what "document_id" is set to.
Chunks(texts, document_names, i) ==
  LET chunks == split_text(texts[i + 1])
  IN [c \in 1..Len(chunks) |->
        [page_content |-> chunks[c],
         source |-> IF i < Len(document_names) THEN document_names[i + 1]
                    ELSE "document_n",
         document_id |-> i,
         chunk_id |-> c - 1,
         total_chunks |-> Len(chunks)]]

RECURSIVE Documents(_, _, _)
Documents(texts, document_names, i) ==
  IF i >= Len(texts) THEN <<>>
  ELSE Chunks(texts, document_names, i) \o Documents(texts, document_names, i + 1)

\* create_vector_store: the content of the FAISS store built over the texts.
create_vector_store(texts, document_names) == Documents(texts, document_names, 0)

\* A store no longer referenced by the service is garbage.
Collect(rs, st) ==
  [v \in StoreIds |-> IF v \in {rs.vector_store, rs.qa_chain} THEN st[v] ELSE <<>>]

\* The reference a newly built store gets: one the QA chain does not hold.
FreshStore(rs) == CHOOSE v \in StoreIds : v # rs.qa_chain

\* add_documents that puts the new store in the place of the one it has.
add_documents_replacing(rs, st, texts, document_names, fault) ==
  LET v == FreshStore(rs)
      rs1 == [rs EXCEPT !.vector_store = v, !.qa_chain = v,
                        !.document_count = Len(texts)]
  IN [rs |-> rs1,
      st |-> Collect(rs1, [st EXCEPT ![v] = create_vector_store(texts, document_names)]),
      status |-> 200]

\* add_documents, raising at `fault`.  status 500 is the HTTPException of
\* its except clause.
add_documents(rs, st, texts, document_names, fault) ==
  LET built == create_vector_store(texts, document_names) IN
  IF fault = "build" THEN [rs |-> rs, st |-> st, status |-> 500]
  ELSE IF rs.vector_store = 0 THEN
    LET v == FreshStore(rs)
        st1 == [st EXCEPT ![v] = built]
        rs1 == [rs EXCEPT !.vector_store = v, !.document_count = Len(texts)]
    IN IF fault = "chain" THEN [rs |-> rs1, st |-> Collect(rs1, st1), status |-> 500]
       ELSE LET rs2 == [rs1 EXCEPT !.qa_chain = v]
            IN [rs |-> rs2, st |-> Collect(rs2, st1), status |-> 200]
  ELSE IF fault = "merge" THEN [rs |-> rs, st |-> st, status |-> 500]
  ELSE
    LET st1 == [st EXCEPT ![rs.vector_store] = @ \o built]
        rs1 == [rs EXCEPT !.document_count = @ + Len(texts)]
    IN IF fault = "chain" THEN [rs |-> rs1, st |-> st1, status |-> 500]
       ELSE LET rs2 == [rs1 EXCEPT !.qa_chain = rs.vector_store]
            IN [rs |-> rs2, st |-> Collect(rs2, st1), status |-> 200]

\* query up to its answer: raises 400 when there is no QA chain and 500 when
\* the chain call fails; otherwise the passages the chain's retriever returns
\* are drawn from the store the chain was created over.  The question is
\* handed to the chain as it is, with no test made on it.
query(rs, st, question, fails) ==
  IF rs.qa_chain = 0 THEN [status |-> 400, searched |-> <<>>]
  ELSE IF fails THEN [status |-> 500, searched |-> <<>>]
  ELSE [status |-> 200, searched |-> st[rs.qa_chain]]

\* A preview that cuts the text and adds no ellipsis.
preview_cut(page_content) ==
  IF Len(page_content) > PreviewLen THEN SubSeq(page_content, 1, PreviewLen)
  ELSE page_content

\* Line 156: doc.page_content[:200] + "..." if len(doc.page_content) > 200
\* else doc.page_content
preview(page_content) ==
  IF Len(page_content) > PreviewLen
  THEN SubSeq(page_content, 1, PreviewLen) \o <<".", ".", ".">>
  ELSE page_content

\* Line 148: the pair that "Chunk {chunk_id + 1}/{total_chunks}" shows.
chunk_info(doc) == <<doc.chunk_id + 1, doc.total_chunks>>

NoQuery == [pc |-> "idle", i |-> 0, source_docs |-> <<>>, source_info |-> <<>>]

\* Lines 139-143: the chain returned `docs` as source_documents.
QueryCall(docs) ==
  /\ query_loop.pc = "idle"
  /\ source_documents' = docs
  /\ query_loop' = [pc |-> "for", i |-> 1, source_docs |-> <<>>, source_info |-> <<>>]
  /\ UNCHANGED services

\* Lines 146-157: one iteration of `for doc in result["source_documents"]`.
QueryDoc ==
  /\ query_loop.pc = "for"
  /\ query_loop.i <= Len(source_documents)
  /\ LET doc == source_documents[query_loop.i]
         source_name == doc.source
     IN query_loop' =
          [pc |-> "for",
           i |-> query_loop.i + 1,
           source_docs |->
             IF \E j \in DOMAIN query_loop.source_docs :
                   query_loop.source_docs[j] = source_name
             THEN query_loop.source_docs
             ELSE Append(query_loop.source_docs, source_name),
           source_info |->
             Append(query_loop.source_info,
                    [source |-> source_name,
                     chunk_info |-> chunk_info(doc),
                     preview |-> preview(doc.page_content)])]
  /\ UNCHANGED source_documents
  /\ UNCHANGED services

\* Lines 161-166: the loop is over and query returns.
QueryReturn ==
  /\ query_loop.pc = "for"
  /\ query_loop.i > Len(source_documents)
  /\ query_loop' = [query_loop EXCEPT !.pc = "returned"]
  /\ UNCHANGED source_documents
  /\ UNCHANGED services

\* What query returns of the sources.
QueryResult ==
  [sources |-> query_loop.source_docs, source_details |-> query_loop.source_info]

\* reset that leaves document_count as it is.
reset_keeping_count(rs) == [rs EXCEPT !.vector_store = 0, !.qa_chain = 0]

\* reset
reset(rs) == [vector_store |-> 0, qa_chain |-> 0, document_count |-> 0]

\* get_status
get_status(rs) ==
  [has_vector_store |-> rs.vector_store # 0,
   has_qa_chain |-> rs.qa_chain # 0,
   document_count |-> rs.document_count,
   ready_for_queries |-> rs.qa_chain # 0]

\* A rebuild that keeps the store it has and only sets document_count.
rebuild_keeping_store(rs, st, remaining_texts, remaining_names, fault) ==
  [rs |-> [rs EXCEPT !.document_count = Len(remaining_texts)], st |-> st,
   status |-> 200]

\* rebuild_vector_store_without_document, raising at `fault`.
rebuild_vector_store_without_document(rs, st, remaining_texts, remaining_names, fault) ==
  IF remaining_texts = <<>> THEN [rs |-> reset(rs), st |-> NoStores, status |-> 200]
  ELSE IF fault = "build" THEN [rs |-> rs, st |-> st, status |-> 500]
  ELSE
    LET v == FreshStore(rs)
        st1 == [st EXCEPT ![v] = create_vector_store(remaining_texts, remaining_names)]
        rs1 == [rs EXCEPT !.vector_store = v]
    IN IF fault = "chain" THEN [rs |-> rs1, st |-> Collect(rs1, st1), status |-> 500]
       ELSE LET rs2 == [rs1 EXCEPT !.qa_chain = v,
                                   !.document_count = Len(remaining_texts)]
            IN [rs |-> rs2, st |-> Collect(rs2, st1), status |-> 200]

\* ------------------------------------------------------------- routes.py

\* get_user_services handing a new session the services already created.
get_user_services_shared(session_id) ==
  IF document_processors[session_id] = 0 /\ processors = <<>>
  THEN [dps |-> [document_processors EXCEPT ![session_id] = 1],
        rss |-> [retrieval_services EXCEPT ![session_id] = 1],
        procs |-> <<NewDocumentProcessor>>,
        retrs |-> <<NewRetrievalService>>,
        stores |-> <<NoStores>>,
        dp |-> 1, rs |-> 1]
  ELSE [dps |-> [document_processors EXCEPT ![session_id] = 1],
        rss |-> [retrieval_services EXCEPT ![session_id] = 1],
        procs |-> processors, retrs |-> retrievers, stores |-> faiss,
        dp |-> 1, rs |-> 1]

\* get_user_services run to completion: the dictionaries and heaps after the
\* call, and the pair it returns.
get_user_services(session_id) ==
  IF document_processors[session_id] = 0
  THEN [dps |-> [document_processors EXCEPT ![session_id] = Len(processors) + 1],
        rss |-> [retrieval_services EXCEPT ![session_id] = Len(retrievers) + 1],
        procs |-> Append(processors, NewDocumentProcessor),
        retrs |-> Append(retrievers, NewRetrievalService),
        stores |-> Append(faiss, NoStores),
        dp |-> Len(processors) + 1,
        rs |-> Len(retrievers) + 1]
  ELSE [dps |-> document_processors, rss |-> retrieval_services,
        procs |-> processors, retrs |-> retrievers, stores |-> faiss,
        dp |-> document_processors[session_id],
        rs |-> retrieval_services[session_id]]

NoUpload ==
  [pc |-> "idle", session |-> "", dp |-> 0, rs |-> 0, files |-> <<>>, k |-> 0,
   texts |-> <<>>, document_info |-> <<>>]

\* The registry and the orchestrator a session's next request will get.
Registry(s) == processors[document_processors[s]]
Orchestrator(s) == retrievers[retrieval_services[s]]
Stores(s) == faiss[retrieval_services[s]]


\* ---------------------------------------------------------------- handlers
\*
\* A handler binds the result of a call with \E over the singleton of the
\* result, which evaluates the call once however often the result is used.

\* The step completes an upload request with a success response.
UploadSucceeds == upload.pc = "read" /\ upload'.pc = "idle" /\ response' = 200

\* The step deletes the only record the registry of session s holds.
DeletesLast(s) ==
  /\ document_processors[s] # 0
  /\ Len(Registry(s).uploaded_documents) = 1
  /\ processors'[document_processors[s]].uploaded_documents = <<>>

\* The ids the processors of a heap have assigned so far.
RECURSIVE Assigned(_)
Assigned(procs) ==
  IF procs = <<>> THEN 0
  ELSE procs[1].document_id_counter + Assigned(Tail(procs))

\* POST /upload up to its first `await file.read()`: the dependency, the
\* empty-list check and the first file's name check.  An HTTPException raised
\* inside the try block is caught by `except Exception` and sent as a 500.
UploadStart(s, files, cap) ==
  /\ upload.pc = "idle"
  /\ \E g \in {get_user_services(s)} :
       /\ Assigned(g.procs) + Len(files) <= cap
       /\ document_processors' = g.dps
       /\ retrieval_services' = g.rss
       /\ processors' = g.procs
       /\ retrievers' = g.retrs
       /\ faiss' = g.stores
       /\ IF files = <<>>
          THEN /\ response' = 500
               /\ UNCHANGED upload
          ELSE IF ~files[1].is_pdf
          THEN /\ response' = 500
               /\ UNCHANGED upload
          ELSE /\ upload' = [pc |-> "read", session |-> s, dp |-> g.dp, rs |-> g.rs,
                             files |-> files, k |-> 1, texts |-> <<>>,
                             document_info |-> <<>>]
               /\ UNCHANGED response
  /\ UNCHANGED <<calls, emptied, in_query>>

\* The locals of process_uploaded_files once the file being read is
\* registered: texts, document_info, and upload_documents' document_names.
UploadTexts ==
  Append(upload.texts, extract_text_from_pdf(upload.files[upload.k]).text)
UploadInfo ==
  Append(upload.document_info,
         doc_info(processors[upload.dp], upload.files[upload.k],
                  extract_text_from_pdf(upload.files[upload.k]).text))
UploadNames == [i \in DOMAIN UploadInfo |-> UploadInfo[i].filename]

\* add_documents is reached: the file being read is the last and readable.
AddDocumentsRuns ==
  /\ upload.pc = "read"
  /\ upload.k = Len(upload.files)
  /\ upload.files[upload.k].readable

\* POST /upload from the return of `await file.read()` for file k to the next
\* await or to the response: extraction and registration of file k, the next
\* file's name check, and after the last file add_documents.  A fault can
\* occur only in a call that is made: in add_documents, and in merge_from
\* when there is a store to merge into.
UploadResume(fault) ==
  /\ upload.pc = "read"
  /\ \/ fault = "none"
     \/ /\ AddDocumentsRuns
        /\ fault = "merge" => retrievers[upload.rs].vector_store # 0
  /\ LET s == upload.session
         file == upload.files[upload.k]
         x == extract_text_from_pdf(file)
         dp == processors[upload.dp]
     IN IF x.status # 200
        THEN /\ response' = 500
             /\ upload' = NoUpload
             /\ UNCHANGED <<processors, retrievers, faiss>>
        ELSE LET texts == UploadTexts
                 document_info == UploadInfo
             IN /\ processors' = [processors EXCEPT ![upload.dp] = Register(dp, file, x.text)]
                /\ IF upload.k < Len(upload.files)
                   THEN IF ~upload.files[upload.k + 1].is_pdf
                        THEN /\ response' = 500
                             /\ upload' = NoUpload
                             /\ UNCHANGED <<retrievers, faiss>>
                        ELSE /\ upload' = [upload EXCEPT !.k = @ + 1, !.texts = texts,
                                                         !.document_info = document_info]
                             /\ UNCHANGED <<response, retrievers, faiss>>
                   ELSE \E document_names \in {UploadNames} :
                        \E a \in {add_documents(retrievers[upload.rs], faiss[upload.rs],
                                               texts, document_names, fault)} :
                           /\ retrievers' = [retrievers EXCEPT ![upload.rs] = a.rs]
                           /\ faiss' = [faiss EXCEPT ![upload.rs] = a.st]
                           /\ upload' = NoUpload
                           /\ response' = IF a.status = 200
                                          THEN 200
                                          ELSE 500
  /\ emptied' = IF UploadSucceeds THEN emptied \ {upload.session} ELSE emptied
  /\ UNCHANGED <<document_processors, retrieval_services, calls, in_query>>

\* The request body of POST /chat: a model with one str field and no
\* constraint on it, so every text is accepted (a rejected body would be
\* answered 422 before the handler runs).
ChatMessage(message) == [valid |-> TRUE, message |-> message]

\* The status a failed query is sent with: chat's `except Exception` catches
\* the HTTPException query raised, whatever its status, and raises a 500.
chat_error_status(raised) == 500

\* POST /chat.  query raises 400 when there is no QA chain, and 500 when the
\* chain call fails (which takes a chain to call).
Chat(s, message, fails) ==
  /\ \E g \in {get_user_services(s)} :
     \E body \in {ChatMessage(message)} :
     \E result \in {query(g.retrs[g.rs], g.stores[g.rs], body.message, fails)} :
       /\ fails => g.retrs[g.rs].qa_chain # 0
       /\ document_processors' = g.dps
       /\ retrieval_services' = g.rss
       /\ processors' = g.procs
       /\ retrievers' = g.retrs
       /\ faiss' = g.stores
       /\ response' =
            IF ~body.valid
            THEN 422
            ELSE IF result.status = 200
            THEN 200
            ELSE chat_error_status(result.status)
  /\ UNCHANGED <<upload, calls, emptied, in_query>>

\* GET /status, GET /documents/stats, GET /documents: read-only.
Read(s) ==
  /\ \E g \in {get_user_services(s)} :
       /\ document_processors' = g.dps
       /\ retrieval_services' = g.rss
       /\ processors' = g.procs
       /\ retrievers' = g.retrs
       /\ faiss' = g.stores
  /\ response' = 200
  /\ UNCHANGED <<upload, calls, emptied, in_query>>

\* A status that takes documents_uploaded from the orchestrator's count.
StatusResponse_by_count(dp, rs) ==
  [documents_uploaded |-> get_status(rs).document_count,
   documents |-> get_remaining_texts_and_names(dp).names,
   ready_for_chat |-> get_status(rs).ready_for_queries]

\* What GET /status answers with.
StatusResponse(dp, rs) ==
  [documents_uploaded |-> get_document_stats(dp).total_documents,
   documents |-> get_remaining_texts_and_names(dp).names,
   ready_for_chat |-> get_status(rs).ready_for_queries]

\* What GET /documents/stats answers with: the registry's statistics and the
\* orchestrator's status in one object.
DocumentStatsResponse(dp, rs) ==
  [total_documents |-> get_document_stats(dp).total_documents,
   documents |-> get_document_stats(dp).documents,
   has_vector_store |-> get_status(rs).has_vector_store,
   has_qa_chain |-> get_status(rs).has_qa_chain,
   document_count |-> get_status(rs).document_count,
   ready_for_queries |-> get_status(rs).ready_for_queries]

GetStatus(s) == Read(s)
GetDocumentStats(s) == Read(s)
GetDocuments(s) == Read(s)

\* DELETE /reset
ResetBot(s) ==
  /\ \E g \in {get_user_services(s)} :
       /\ document_processors' = g.dps
       /\ retrieval_services' = g.rss
       /\ processors' = [g.procs EXCEPT ![g.dp] = clear_documents(@)]
       /\ retrievers' = [g.retrs EXCEPT ![g.rs] = reset(@)]
       /\ faiss' = [g.stores EXCEPT ![g.rs] = NoStores]
  /\ response' = 200
  /\ UNCHANGED <<upload, calls, emptied, in_query>>

\* The body of delete_document (routes.py) run on the pair g that
\* get_user_services returned, the rebuild raising at `fault`: the heaps
\* after it and the status of the response.  An HTTPException is re-raised
\* as it is.
delete_document_route(g, document_id, fault) ==
  LET dp == g.procs[g.dp]
      doc_to_delete == get_document_by_id(dp, document_id)
      d == delete_document(dp, document_id)
      remaining == get_remaining_texts_and_names(d.dp)
      r == rebuild_vector_store_without_document(
             g.retrs[g.rs], g.stores[g.rs], remaining.texts, remaining.names, fault)
  IN IF doc_to_delete = {} \/ ~d.deleted
     THEN [procs |-> g.procs, retrs |-> g.retrs, stores |-> g.stores,
           status |-> 404]
     ELSE [procs |-> [g.procs EXCEPT ![g.dp] = d.dp],
           retrs |-> [g.retrs EXCEPT ![g.rs] = r.rs],
           stores |-> [g.stores EXCEPT ![g.rs] = r.st],
           status |-> IF r.status = 200
                      THEN 200
                      ELSE 500]

\* The rebuild of delete_document is reached and builds a store: a record has
\* the id and others remain.
RebuildRuns(dp, document_id) ==
  /\ get_document_by_id(dp, document_id) # {}
  /\ delete_document(dp, document_id).dp.uploaded_documents # <<>>

\* DELETE /documents/{document_id}.  A fault can occur only in a call that is
\* made: in the rebuild over the documents that remain, which never merges.
DeleteDocument(s, document_id, fault) ==
  /\ fault # "merge"
  /\ \E g \in {get_user_services(s)} :
       /\ fault = "none" \/ RebuildRuns(g.procs[g.dp], document_id)
       /\ \E done \in {delete_document_route(g, document_id, fault)} :
            /\ document_processors' = g.dps
            /\ retrieval_services' = g.rss
            /\ processors' = done.procs
            /\ retrievers' = done.retrs
            /\ faiss' = done.stores
            /\ response' = done.status
  /\ emptied' = IF DeletesLast(s) THEN emptied \cup {s} ELSE emptied
  /\ UNCHANGED <<upload, calls, in_query>>

\* ------------------------------------ get_user_services on the thread pool

NoCall == [pc |-> "idle", session |-> "", dp |-> 0, rs |-> 0, n |-> 0]

\* A pool thread enters get_user_services(s).
Call(t, s) ==
  /\ calls[t].pc = "idle"
  /\ calls[t].n < MaxCalls
  /\ calls' = [calls EXCEPT ![t] = [pc |-> "line19", session |-> s, dp |-> 0,
                                    rs |-> 0, n |-> calls[t].n + 1]]
  /\ UNCHANGED <<document_processors, retrieval_services, processors, retrievers,
                 faiss, upload, response, emptied, in_query>>

\* Line 19: if session_id not in document_processors
Line19(t) ==
  /\ calls[t].pc = "line19"
  /\ calls' = [calls EXCEPT ![t].pc =
                 IF document_processors[calls[t].session] = 0 THEN "line20"
                 ELSE "line23"]
  /\ UNCHANGED <<document_processors, retrieval_services, processors, retrievers,
                 faiss, upload, response, emptied, in_query>>

\* Line 20: document_processors[session_id] = DocumentProcessor()
Line20(t) ==
  /\ calls[t].pc = "line20"
  /\ processors' = Append(processors, NewDocumentProcessor)
  /\ document_processors' =
       [document_processors EXCEPT ![calls[t].session] = Len(processors) + 1]
  /\ calls' = [calls EXCEPT ![t].pc = "line21"]
  /\ UNCHANGED <<retrieval_services, retrievers, faiss, upload, response,
                 emptied, in_query>>

\* Line 21: retrieval_services[session_id] = RetrievalService()
Line21(t) ==
  /\ calls[t].pc = "line21"
  /\ retrievers' = Append(retrievers, NewRetrievalService)
  /\ faiss' = Append(faiss, NoStores)
  /\ retrieval_services' =
       [retrieval_services EXCEPT ![calls[t].session] = Len(retrievers) + 1]
  /\ calls' = [calls EXCEPT ![t].pc = "line23"]
  /\ UNCHANGED <<document_processors, processors, upload, response, emptied,
                 in_query>>

\* Line 23: return document_processors[session_id], retrieval_services[session_id]
\* (rs = 0: the key is not in retrieval_services yet, a KeyError).
Line23(t) ==
  /\ calls[t].pc = "line23"
  /\ calls' = [calls EXCEPT ![t].pc = "idle",
                            ![t].dp = document_processors[calls[t].session],
                            ![t].rs = retrieval_services[calls[t].session]]
  /\ UNCHANGED <<document_processors, retrieval_services, processors, retrievers,
                 faiss, upload, response, emptied, in_query>>

\* ------------------------------------------------------- specification

Init ==
  /\ document_processors = [s \in Sessions |-> 0]
  /\ retrieval_services = [s \in Sessions |-> 0]
  /\ processors = <<>>
  /\ retrievers = <<>>
  /\ faiss = <<>>
  /\ upload = NoUpload
  /\ response = 0
  /\ calls = [t \in Threads |-> NoCall]
  /\ emptied = {}
  /\ source_documents = <<>>
  /\ query_loop = NoQuery

\* A step of a request made with session identifier s; the run assigns at
\* most `cap` ids.
Request(s, cap) ==
  \/ \E files \in Batches(cap) : UploadStart(s, files, cap)
  \/ upload.session = s /\ \E fault \in Faults : UploadResume(fault)
  \/ \E message \in Messages, fails \in BOOLEAN : Chat(s, message, fails)
  \/ GetStatus(s)
  \/ GetDocumentStats(s)
  \/ GetDocuments(s)
  \/ ResetBot(s)
  \/ \E document_id \in 1..MaxId, fault \in Faults :
       DeleteDocument(s, document_id, fault)

\* One client: every request carries the same session identifier.
Next == Request("s1", MaxId)

Spec == Init /\ [][Next]_vars

\* Two clients.
NextSessions == \E s \in Sessions : Request(s, MaxShared)

SpecSessions == Init /\ [][NextSessions]_vars

NextRace ==
  \E t \in Threads :
    \/ \E s \in Sessions : Call(t, s)
    \/ Line19(t)
    \/ Line20(t)
    \/ Line21(t)
    \/ Line23(t)

SpecRace == Init /\ [][NextRace]_vars

\* One call of query over every list of passages the chain may return.
NextQuery ==
  \/ \E docs \in SeqsUpTo(RetrievedDocs, MaxRetrieved) : QueryCall(docs)
  \/ QueryDoc
  \/ QueryReturn

SpecQuery == Init /\ [][NextQuery]_vars

\* Uploads whose files are all readable PDFs.
ReadableBatches ==
  {q \in Batches(MaxId) :
     q # <<>> /\ \A i \in DOMAIN q : q[i].is_pdf /\ q[i].readable}

\* An upload of several files is suspended in `await file.read()`.
MultiFileUploadSuspended == upload.pc = "read" /\ Len(upload.files) > 1

\* One session in which no call raises and no file is rejected: uploads, and
\* delete and reset requests that arrive only while an upload of several
\* files of the session is suspended in a file read.
NextInterleaved ==
  \/ \E files \in ReadableBatches : UploadStart("s1", files, MaxId)
  \/ UploadResume("none")
  \/ MultiFileUploadSuspended /\ \E document_id \in 1..MaxId :
                                   DeleteDocument("s1", document_id, "none")
  \/ MultiFileUploadSuspended /\ ResetBot("s1")

SpecInterleaved == Init /\ [][NextInterleaved]_vars


\* ------------------------------------------------------------ properties

Range(q) == {q[i] : i \in DOMAIN q}

\* What a newly created pair shows.
FreshView ==
  [registry |-> NewDocumentProcessor, orch |-> NewRetrievalService,
   stores |-> NoStores]

\* What the next request of session s finds: its registry, its orchestrator
\* and the stores the orchestrator references (those of a newly created pair
\* when the session has made no request yet).
View(s) ==
  IF document_processors[s] = 0
  THEN FreshView
  ELSE [registry |-> Registry(s), orch |-> Orchestrator(s), stores |-> Stores(s)]

\* The passages of the store the orchestrator holds (none: no store).
Index(v) ==
  IF v.orch.vector_store = 0 THEN <<>> ELSE v.stores[v.orch.vector_store]

\* A passage's document and text.
Held(passages) == {<<p.source, p.page_content>> : p \in Range(passages)}

\* The passages the registry's documents give.
Expected(dp) ==
  LET r == get_remaining_texts_and_names(dp)
  IN Held(create_vector_store(r.texts, r.names))

\* What a reader is shown: get_status, and the passages the QA chain searches.
Observed(rs, st) ==
  [status |-> get_status(rs),
   searched |-> IF rs.qa_chain = 0 THEN <<>> ELSE st[rs.qa_chain]]

\* C1: whenever no upload is in progress, the documents whose passages the
\* vector index holds are exactly the documents of the registry, in every
\* session.
C1_IndexExplainedByRegistry ==
  upload.pc = "idle" =>
    \A s \in Sessions : Held(Index(View(s))) = Expected(View(s).registry)

\* C2: when extraction fails for a file of an upload request, no record the
\* request registered for an earlier file is in the registry afterwards.
C2_FailedBatchRegistersNothing ==
  [][(/\ upload.pc = "read"
      /\ ~upload.files[upload.k].readable
      /\ \E fault \in Faults : UploadResume(fault))
     => \A d \in Range(upload.document_info) :
          d \notin Range(processors'[upload.dp].uploaded_documents)]_vars

\* C3: a chat request to a session without an index is answered with a 4xx
\* status and leaves the session's registry and index as they were.
C3_ChatWithoutIndexIs4xx ==
  [][\A s \in Sessions, message \in Messages, fails \in BOOLEAN :
       (View(s).orch.vector_store = 0 /\ Chat(s, message, fails))
       => (response' \in 400..499 /\ View(s)' = View(s))]_vars

\* The ids of a registry's records increase along the list and lie in
\* 1..document_id_counter.
IdsIncrease(dp) ==
  LET docs == dp.uploaded_documents
  IN /\ \A i, j \in DOMAIN docs : i < j => docs[i].id < docs[j].id
     /\ \A i \in DOMAIN docs : docs[i].id \in 1..dp.document_id_counter

\* C4: in every registry, no two records share an id, the counter (the
\* greatest id assigned so far) never decreases, and every record a step adds
\* has an id greater than the counter before the step, so greater than every
\* id assigned before, deleted or not.
C4_IdMonotonicity ==
  [][\A o \in DOMAIN processors' :
       LET old == IF o \in DOMAIN processors THEN processors[o]
                  ELSE NewDocumentProcessor
           new == processors'[o]
       IN /\ IdsIncrease(new)
          /\ new.document_id_counter >= old.document_id_counter
          /\ \A d \in Range(new.uploaded_documents) :
               \/ d \in Range(old.uploaded_documents)
               \/ d.id > old.document_id_counter]_vars

\* C4's case: a registry holding ids 1 and 3, id 2 deleted.
C4_Witness ==
  \E o \in DOMAIN processors :
    /\ Len(processors[o].uploaded_documents) = 2
    /\ processors[o].uploaded_documents[1].id = 1
    /\ processors[o].uploaded_documents[2].id = 3

\* C5: reset removes every record and leaves the id counter as it was, and
\* the first record registered into an emptied registry gets the id after the
\* counter, greater than every id assigned before the reset.
C5_ResetKeepsCounter ==
  [][/\ \A s \in Sessions :
          ResetBot(s) =>
            /\ View(s)'.registry.uploaded_documents = <<>>
            /\ View(s)'.registry.document_id_counter =
                 View(s).registry.document_id_counter
     /\ \A o \in DOMAIN processors :
          (processors[o].uploaded_documents = <<>>
           /\ processors'[o].uploaded_documents # <<>>)
          => processors'[o].uploaded_documents[1].id =
               processors[o].document_id_counter + 1]_vars

\* C5's case: after a reset that followed two registrations, the registry
\* holds one record, with id 3, and the index its passages.
C5_Witness ==
  \E s \in Sessions :
    /\ Len(View(s).registry.uploaded_documents) = 1
    /\ View(s).registry.uploaded_documents[1].id = 3
    /\ View(s).orch.document_count = 1
    /\ View(s).orch.qa_chain # 0
    /\ response = 200

\* C6: when add_documents fails, the orchestrator and its stores are what
\* they were before the call.
C6_FailedAddLeavesOrchestrator ==
  [][\A fault \in Faults :
       (AddDocumentsRuns /\ UploadResume(fault) /\ response' = 500)
       => /\ retrievers'[upload.rs] = retrievers[upload.rs]
          /\ faiss'[upload.rs] = faiss[upload.rs]]_vars

\* C7: after a delete_document(id) whose rebuild succeeded, no passage of the
\* index has document_id metadata equal to id.
C7_NoPassageOfDeletedId ==
  [][\A s \in Sessions, id \in 1..MaxId :
       (get_document_by_id(View(s).registry, id) # {}
        /\ DeleteDocument(s, id, "none"))
       => \A p \in Range(Index(View(s)')) : p.document_id # id]_vars

\* The call of thread t returned a pair (rs = 0: it raised KeyError).
Returned(t) == calls[t].pc = "idle" /\ calls[t].n > 0 /\ calls[t].rs # 0

\* C8: any two calls of get_user_services that returned for one session_id
\* returned the same pair.
C8_SamePairEveryCall ==
  \A t, u \in Threads :
    (Returned(t) /\ Returned(u) /\ calls[t].session = calls[u].session)
    => calls[t].dp = calls[u].dp /\ calls[t].rs = calls[u].rs

\* A step breaks the isolation of a request of session s: it changes what
\* another session holds, or s made no request before and the step does not
\* leave it a newly created pair of its own.
BreaksIsolation(s) ==
  \/ \E t \in Sessions \ {s} : View(t)' # View(t)
  \/ /\ document_processors[s] = 0
     /\ \/ View(s)' # FreshView
        \/ document_processors'[s] = 0
        \/ \E t \in Sessions \ {s} : document_processors'[t] = document_processors'[s]

\* C9: a step of a request with session identifier s leaves the registry,
\* id counter, index and document_count of every other session as they were,
\* and a session that makes its first request gets an empty registry with
\* counter 0 and an orchestrator without index, whatever the others hold.
C9_SessionIsolation ==
  [][\A s \in Sessions : ~(BreaksIsolation(s) /\ Request(s, MaxShared))]_vars

\* C9's case: both sessions hold a document of their own, each with id 1.
C9_Witness ==
  /\ \A s \in Sessions :
       /\ Len(View(s).registry.uploaded_documents) = 1
       /\ View(s).registry.uploaded_documents[1].id = 1
       /\ View(s).orch.document_count = 1
  /\ View("s1").registry.uploaded_documents[1].filename
       # View("s2").registry.uploaded_documents[1].filename

\* C10: what a reader is shown after a step that ran add_documents or a
\* rebuild is what it was shown before the step or what the completed
\* operation shows, never a mixture.
C10_ReadersSeeOldOrNew ==
  [][/\ \A fault \in Faults :
          (AddDocumentsRuns /\ UploadResume(fault)) =>
            LET rs == retrievers[upload.rs]
                st == faiss[upload.rs]
                done == add_documents(rs, st, UploadTexts, UploadNames, "none")
            IN Observed(retrievers'[upload.rs], faiss'[upload.rs])
                 \in {Observed(rs, st), Observed(done.rs, done.st)}
     /\ \A s \in Sessions, id \in 1..MaxId, fault \in Faults :
          (get_document_by_id(View(s).registry, id) # {}
           /\ DeleteDocument(s, id, fault)) =>
            LET v == View(s)
                r == get_remaining_texts_and_names(delete_document(v.registry, id).dp)
                done == rebuild_vector_store_without_document(
                          v.orch, v.stores, r.texts, r.names, "none")
            IN Observed(View(s)'.orch, View(s)'.stores)
                 \in {Observed(v.orch, v.stores), Observed(done.rs, done.st)}]_vars

\* C11: the delete_document step that removes a session's last remaining
\* document leaves the orchestrator without vector store and QA chain, with
\* document_count 0 and ready_for_queries false; and from then until an
\* upload request of the session succeeds, every query raises the 400 of
\* "no documents uploaded yet".
C11_EmptyAfterLastDelete ==
  [][\A s \in Sessions :
       /\ s \in emptied' \ emptied =>
            /\ get_status(View(s)'.orch) =
                 [has_vector_store |-> FALSE, has_qa_chain |-> FALSE,
                  document_count |-> 0, ready_for_queries |-> FALSE]
            /\ Index(View(s)') = <<>>
       /\ s \in emptied' =>
            \A question \in Messages, fails \in BOOLEAN :
              query(View(s)'.orch, View(s)'.stores, question, fails).status = 400]_vars

\* A registry and an orchestrator as reset_bot leaves them.
IsReset(v) ==
  /\ v.registry.uploaded_documents = <<>>
  /\ v.orch = NewRetrievalService
  /\ v.stores = NoStores

\* C12: a reset leaves the registry empty, the orchestrator without vector
\* store and QA chain and with document_count 0, and the id counter as it
\* was; a reset of a session that is in that state (so a second reset in a
\* row) changes nothing.
C12_ResetIdempotent ==
  [][\A s \in Sessions :
       ResetBot(s) =>
         /\ IsReset(View(s)')
         /\ View(s)'.registry.document_id_counter =
              View(s).registry.document_id_counter
         /\ IsReset(View(s)) => View(s)' = View(s)
         /\ clear_documents(View(s)'.registry) = View(s)'.registry
         /\ reset(View(s)'.orch) = View(s)'.orch]_vars

\* C12's case: a session reset after two registrations and an index build.
C12_Witness ==
  \E s \in Sessions :
    /\ IsReset(View(s))
    /\ View(s).registry.document_id_counter = 2
    /\ s \notin emptied
    /\ upload.pc = "idle"
    /\ response = 200

\* The delete request of session s for the id run in the current state with
\* no call raising: the status of its response and the session's registry,
\* orchestrator and stores after it, as DeleteDocument leaves them.
Deleted(s, id) ==
  LET g == get_user_services(s)
      done == delete_document_route(g, id, "none")
  IN [status |-> done.status,
      view |-> [registry |-> done.procs[g.dp],
                orch |-> done.retrs[g.rs],
                stores |-> done.stores[g.rs]]]

\* C13: in every reachable state, a delete request whose id no record of the
\* session's registry has is answered with 404 and leaves the registry, the
\* id counter, the orchestrator and its stores as they were; and on every
\* registry, delete_document returns true exactly when a record has the id,
\* in which case that record and no other is removed, and otherwise removes
\* nothing.
C13_DeleteUnknownIsNotFound ==
  /\ \A s \in Sessions, id \in 1..MaxId :
       get_document_by_id(View(s).registry, id) = {}
       => Deleted(s, id) = [status |-> 404, view |-> View(s)]
  /\ \A o \in DOMAIN processors, id \in 1..MaxId :
       LET dp == processors[o]
           d == delete_document(dp, id)
           held == get_document_by_id(dp, id)
       IN /\ d.deleted <=> held # {}
          /\ d.dp.document_id_counter = dp.document_id_counter
          /\ Range(d.dp.uploaded_documents) =
               Range(dp.uploaded_documents) \ held
          /\ Len(d.dp.uploaded_documents) =
               Len(dp.uploaded_documents) - Cardinality(held)

\* C13's case: id 1 was deleted before and is asked for again; the registry
\* still holds id 2 and the orchestrator its index.
C13_Witness ==
  \E s \in Sessions :
    /\ response = 404
    /\ Len(View(s).registry.uploaded_documents) = 1
    /\ View(s).registry.uploaded_documents[1].id = 2
    /\ View(s).orch.qa_chain # 0
    /\ View(s).orch.document_count = 1

\* The upload step rejects a file whose name does not end in .pdf: the first
\* file, or the file after the one just registered.
RejectsNextFile ==
  /\ upload.pc = "read"
  /\ upload.files[upload.k].readable
  /\ upload.k < Len(upload.files)
  /\ ~upload.files[upload.k + 1].is_pdf

\* C14: an upload request rejected for an empty file list or for a file that
\* is not a PDF leaves in the registry no record it registered for the files
\* before, and leaves the orchestrator and its stores as they were.
C14_RejectedUploadChangesNothing ==
  [][/\ \A s \in Sessions, files \in Batches(MaxId) :
          ((files = <<>> \/ ~files[1].is_pdf) /\ UploadStart(s, files, MaxId))
          => View(s)' = View(s)
     /\ (RejectsNextFile /\ \E fault \in Faults : UploadResume(fault))
          => /\ \A d \in Range(UploadInfo) :
                  d \notin Range(processors'[upload.dp].uploaded_documents)
             /\ retrievers'[upload.rs] = retrievers[upload.rs]
             /\ faiss'[upload.rs] = faiss[upload.rs]]_vars

\* The passages a query of the session can be answered from: those of the
\* store the QA chain's retriever searches.
Searched(v) == query(v.orch, v.stores, "", FALSE).searched

\* The document names a query over the passages can list among its sources.
Sources(passages) == {p.source : p \in Range(passages)}

\* The names that are sources in the stores the orchestrator references: the
\* one its QA chain searches and the one later uploads are merged into.
HeldSources(v) == Sources(Searched(v)) \cup Sources(Index(v))

Names(dp) == Range(get_remaining_texts_and_names(dp).names)

\* The registry without the records that have the id, in the same order.
Without(dp, id) ==
  LET docs == dp.uploaded_documents
      keep(d) == d.id # id
  IN SelectSeq(docs, keep)

\* C15: in every reachable state, a delete request that succeeds leaves a
\* document list that is the list before without the deleted record, the
\* others in their order, and unless another record carries the deleted
\* document's name no passage of the stores the orchestrator references, so
\* none a query is answered from, has that name as source; and in every
\* step a name becomes a source in those stores only if a record with that
\* name is registered or the step is of an upload that has a file of that
\* name (so the deleted name stays out of every later query result until a
\* document of that name is uploaded again).
C15_DeletedDocumentIsGone ==
  /\ [](\A s \in Sessions :
          \A doc \in Range(View(s).registry.uploaded_documents) :
            \A done \in {Deleted(s, doc.id)} :
              done.status = 200
              => /\ get_document_stats(done.view.registry).documents =
                      Without(View(s).registry, doc.id)
                 /\ doc.filename \notin Names(done.view.registry)
                      => doc.filename \notin HeldSources(done.view))
  /\ [][\A s \in Sessions :
          \A n \in HeldSources(View(s)') \ HeldSources(View(s)) :
            \/ n \in Names(View(s)'.registry)
            \/ /\ upload.pc = "read"
               /\ upload.session = s
               /\ \E i \in DOMAIN upload.files : upload.files[i].filename = n]_vars

\* C15's case: a.pdf (id 1) and b.pdf (id 2) were uploaded and a.pdf
\* deleted; the list holds b.pdf only and the QA chain searches the store the
\* rebuild made, the second one of the orchestrator.
C15_Witness ==
  \E s \in Sessions :
    /\ response = 200
    /\ Len(View(s).registry.uploaded_documents) = 1
    /\ View(s).registry.uploaded_documents[1].id = 2
    /\ View(s).registry.uploaded_documents[1].filename = "b.pdf"
    /\ View(s).orch.qa_chain = 2
    /\ Sources(Searched(View(s))) = {"b.pdf"}

\* The passages of one file uploaded alone.
PassagesOf(file) == create_vector_store(<<file.text>>, <<file.filename>>)

\* The index of a new orchestrator after file x and then file y were added,
\* each by an upload of its own.
TwoUploads(x, y) ==
  LET first == add_documents(NewRetrievalService, NoStores,
                             <<x.text>>, <<x.filename>>, "none")
      second == add_documents(first.rs, first.st, <<y.text>>, <<y.filename>>, "none")
  IN second.st[second.rs.vector_store]

\* C16: an upload that succeeds leaves an index, searched by the QA chain,
\* that holds the passages it held before and the passages of the uploaded
\* files, each with its file's name as source; and when the index held the
\* passages of one document x and the upload is of one document y, the
\* (name, text) entries are those of x and those of y, the same as when y
\* is added first and x second.
C16_MergeOrderIrrelevant ==
  [][\A fault \in Faults :
       (AddDocumentsRuns /\ UploadResume(fault) /\ response' = 200) =>
         LET old == Index([orch |-> retrievers[upload.rs], stores |-> faiss[upload.rs]])
             new == Index([orch |-> retrievers'[upload.rs], stores |-> faiss'[upload.rs]])
             y == upload.files[upload.k]
         IN /\ new = old \o create_vector_store(UploadTexts, UploadNames)
            /\ retrievers'[upload.rs].qa_chain = retrievers'[upload.rs].vector_store
            /\ \A p \in Range(create_vector_store(UploadTexts, UploadNames)) :
                 \E i \in DOMAIN upload.files :
                   /\ p.source = upload.files[i].filename
                   /\ p.page_content \in Range(split_text(upload.files[i].text))
            /\ \A x \in Files :
                 (x.readable /\ old = PassagesOf(x) /\ Len(upload.files) = 1)
                 => /\ new = TwoUploads(x, y)
                    /\ Held(new) = Held(PassagesOf(x)) \cup Held(PassagesOf(y))
                    /\ Held(new) = Held(TwoUploads(y, x))]_vars

\* C16's case: b.pdf was uploaded, then a.pdf by a second upload (each
\* passage is of the first text of its upload); the index holds the passages
\* of both.
C16_Witness ==
  \E s \in Sessions :
    /\ response = 200
    /\ upload.pc = "idle"
    /\ View(s).orch.qa_chain # 0
    /\ View(s).orch.document_count = 2
    /\ [i \in DOMAIN Index(View(s)) |-> Index(View(s))[i].source]
         = <<"b.pdf", "b.pdf", "a.pdf">>
    /\ \A p \in Range(Index(View(s))) : p.document_id = 0
    /\ Held(Searched(View(s))) = Held(TwoUploads(Files_a, Files_b))

\* C17: after every step that completes an upload request with success, the
\* status of the session reports ready_for_chat true and documents_uploaded
\* equal to the number of records in the registry; it is 1 when the request
\* had one file and the registry had assigned no id before.
C17_StatusAfterUpload ==
  [][\A fault \in Faults :
       (UploadResume(fault) /\ UploadSucceeds) =>
         LET status == StatusResponse(processors'[upload.dp], retrievers'[upload.rs])
         IN /\ status.ready_for_chat
            /\ status.documents_uploaded =
                 Len(processors'[upload.dp].uploaded_documents)
            /\ Len(status.documents) = status.documents_uploaded
            /\ (Len(upload.files) = 1
                /\ processors[upload.dp].document_id_counter = 0)
               => status.documents_uploaded = 1]_vars

\* C17's case: an upload succeeded in a session whose registry also holds
\* the record of an upload that failed before: two documents registered,
\* document_count 1.
C17_Witness ==
  \E s \in Sessions :
    /\ response = 200
    /\ upload.pc = "idle"
    /\ StatusResponse(View(s).registry, View(s).orch) =
         [documents_uploaded |-> 2, documents |-> <<"a.pdf", "b.pdf">>,
          ready_for_chat |-> TRUE]
    /\ View(s).registry.document_id_counter = 2
    /\ View(s).orch.document_count = 1

\* C18: a chat request whose question text is empty, made to a session whose
\* QA chain would answer, is answered with a 4xx status and no answer, and
\* leaves the session's registry and index as they were.
C18_EmptyQuestionRejected ==
  [][\A s \in Sessions :
       (View(s).orch.qa_chain # 0 /\ Chat(s, "", FALSE)) =>
         /\ response' \in 400..499
         /\ View(s)' = View(s)]_vars

\* The rebuild of a delete request runs over a non-empty remainder and
\* raises.
RebuildFails(v, id, fault) ==
  /\ get_document_by_id(v.registry, id) # {}
  /\ delete_document(v.registry, id).dp.uploaded_documents # <<>>
  /\ fault \in {"build", "chain"}

\* C19: when the rebuild of a delete request raises, the request is answered
\* with a 5xx status and the orchestrator (vector store, QA chain,
\* document_count) and its stores are what they were before the request.
C19_FailedRebuildLeavesOrchestrator ==
  [][\A s \in Sessions, id \in 1..MaxId, fault \in Faults :
       (RebuildFails(View(s), id, fault) /\ DeleteDocument(s, id, fault))
       => /\ response' \in 500..599
          /\ View(s)'.orch = View(s).orch
          /\ View(s)'.stores = View(s).stores]_vars

\* The place of the first passage of document `name` among the passages.
FirstOf(name, docs) ==
  CHOOSE i \in DOMAIN docs :
    docs[i].source = name /\ \A j \in 1..(i - 1) : docs[j].source # name

\* C20: when query returns, its sources are the names of the documents of
\* the retrieved passages, each once, a name before another when its first
\* passage comes before the other's; source_details has an entry for each
\* retrieved passage, in their order, with the passage's source, and with
\* the passage text as preview when it has at most 200 characters and
\* otherwise its first 200 characters followed by "...".
C20_SourcesAndPreviews ==
  query_loop.pc = "returned" =>
    LET sources == QueryResult.sources
        details == QueryResult.source_details
    IN /\ Range(sources) = Sources(source_documents)
       /\ \A i, j \in DOMAIN sources :
            i < j => FirstOf(sources[i], source_documents)
                       < FirstOf(sources[j], source_documents)
       /\ Len(details) = Len(source_documents)
       /\ \A i \in DOMAIN source_documents :
            LET text == source_documents[i].page_content
            IN /\ details[i].source = source_documents[i].source
               /\ Len(text) <= 200 => details[i].preview = text
               /\ Len(text) > 200 =>
                    /\ Len(details[i].preview) = 203
                    /\ \A c \in 1..200 : details[i].preview[c] = text[c]
                    /\ \A c \in 201..203 : details[i].preview[c] = "."

\* C20's case: three passages were retrieved, of b.pdf, a.pdf and b.pdf
\* again, the first longer than a preview; query returned b.pdf and a.pdf.
C20_Witness ==
  /\ query_loop.pc = "returned"
  /\ Len(source_documents) = 3
  /\ QueryResult.sources = <<"b.pdf", "a.pdf">>
  /\ source_documents[3].source = "b.pdf"
  /\ Len(source_documents[1].page_content) = 201
  /\ Len(QueryResult.source_details[1].preview) = 203

\* C21: whenever no upload is in progress, in every session the
\* orchestrator's document_count is the number of records of the registry:
\* documents_uploaded of /status and document_count and total_documents of
\* /documents/stats are the same number.
C21_CountMatchesRegistry ==
  upload.pc = "idle" =>
    \A s \in Sessions :
      LET v == View(s)
          stats == DocumentStatsResponse(v.registry, v.orch)
      IN /\ v.orch.document_count = Len(v.registry.uploaded_documents)
         /\ stats.document_count = stats.total_documents
         /\ stats.document_count = StatusResponse(v.registry, v.orch).documents_uploaded

\* C22: in every reachable state every orchestrator has a vector store
\* exactly when it has a QA chain, get_status shows has_vector_store,
\* has_qa_chain and ready_for_queries equal, the QA chain is the one created
\* over the vector store held, and document_count is 0 when no vector store
\* is held.
C22_StoreAndChainTogether ==
  \A o \in DOMAIN retrievers :
    LET rs == retrievers[o]
    IN /\ rs.vector_store # 0 <=> rs.qa_chain # 0
       /\ get_status(rs).has_vector_store = get_status(rs).has_qa_chain
       /\ get_status(rs).has_qa_chain = get_status(rs).ready_for_queries
       /\ rs.qa_chain = rs.vector_store
       /\ rs.vector_store = 0 => rs.document_count = 0

\* How many passages of the sequence are passage h of a document.
Times(passages, h) ==
  Cardinality({i \in DOMAIN passages :
                 <<passages[i].source, passages[i].page_content>> = h})

\* The passages a store built from the registry's documents holds.
ExpectedIndex(dp) ==
  create_vector_store(get_remaining_texts_and_names(dp).texts,
                      get_remaining_texts_and_names(dp).names)

\* C23: when delete and reset requests arrive only while an upload of
\* several files of the session is suspended in a file read, then whenever
\* no upload is in progress the index holds the passages of every registered
\* document as often as the registry gives them (once per record), holds no
\* passage of a document that is not registered, and document_count is the
\* number of records.
C23_InterleavedUploadAndDelete ==
  upload.pc = "idle" =>
    \A s \in Sessions :
      LET v == View(s)
      IN /\ \A h \in Held(Index(v)) \cup Expected(v.registry) :
              Times(Index(v), h) = Times(ExpectedIndex(v.registry), h)
         /\ v.orch.document_count = Len(v.registry.uploaded_documents)

====
